---- MODULE Spec2Model ----
(***************************************************************************)
(* Model of postgresapi/models.py: name canonicalization, credential       *)
(* derivation, the cluster manager's DDL and the Instance lifecycle.       *)
(* A string is a sequence of one-character strings.                        *)
(***************************************************************************)
EXTENDS Integers, Sequences, FiniteSets, TLC

(* ------------------------------ bounds -------------------------------- *)
\* longest string drawn as an input of the pure functions
MaxLen == 3
\* how many of the instance names of AllRawNames the callers use
NumNames == 4
\* how many of those names the callers that run side by side use
NumConcNames == 2
\* how often a name is canonicalized again
MaxApply == 2

(* --------------------------- character data --------------------------- *)
\* printable ASCII, code 32 (space) first; three characters that cannot be
\* written in a string literal here are held by placeholders
AsciiTable ==
    << " ", "!", "<dquote>", "#", "$", "%", "&", "'", "(", ")", "*", "+", ",", "-", ".", "/",
       "0", "1", "2", "3", "4", "5", "6", "7", "8", "9", ":", ";", "<", "=", ">", "?",
       "@", "A", "B", "C", "D", "E", "F", "G", "H", "I", "J", "K", "L", "M", "N", "O",
       "P", "Q", "R", "S", "T", "U", "V", "W", "X", "Y", "Z", "[", "<backslash>", "]", "^", "_",
       "<backquote>", "a", "b", "c", "d", "e", "f", "g", "h", "i", "j", "k", "l", "m", "n", "o",
       "p", "q", "r", "s", "t", "u", "v", "w", "x", "y", "z", "{", "|", "}", "~" >>

AsciiBase == 32

Ord(c) == AsciiBase - 1 + (CHOOSE i \in 1..Len(AsciiTable) : AsciiTable[i] = c)

HexChars == <<"0", "1", "2", "3", "4", "5", "6", "7",
              "8", "9", "a", "b", "c", "d", "e", "f">>

\* the characters the regular expression class \w matches on a byte string
WordChars ==
    {AsciiTable[i] : i \in 17..26} \cup {AsciiTable[i] : i \in 34..59}
        \cup {AsciiTable[i] : i \in 66..91} \cup {"_"}

Min(a, b) == IF a < b THEN a ELSE b

\* the Python slice s[:n]
Take(s, n) == SubSeq(s, 1, Min(n, Len(s)))

(* ----------------------------- hashing -------------------------------- *)
\* SHA-1 is modelled by a 24-bit multiplicative rolling hash whose digest is
\* stretched to 40 hex digits; it is deterministic and mixes every byte.
HashWidth == 16777216
HashIV == 5381
HashMul == 31
DigestLen == 40

RECURSIVE HashUpdate(_, _)
HashUpdate(h, s) ==
    IF s = <<>> THEN h
    ELSE HashUpdate((h * HashMul + Ord(Head(s))) % HashWidth, Tail(s))

HexBlock(h) == [i \in 1..6 |-> HexChars[((h \div (16 ^ (6 - i))) % 16) + 1]]

RECURSIVE HexStretch(_, _)
HexStretch(h, n) ==
    IF n <= 0 THEN <<>>
    ELSE HexBlock(h) \o HexStretch((h * HashMul + 7) % HashWidth, n - 6)

HexDigest(h) == SubSeq(HexStretch(h, DigestLen), 1, DigestLen)

Sha1Hex(s) == HexDigest(HashUpdate(HashIV, s))

\* app.config['SALT']
SALT == <<"s", "a", "l", "t">>


(* ---------------------- credential derivation ------------------------- *)
\* hmac.new(SALT, digestmod=sha1); update(string); update(host); hexdigest()
generate_password(string, host) ==
    HexDigest(HashUpdate(HashUpdate(HashUpdate(HashIV, SALT), string), host))

\* the digest is taken of the whole name instead of the truncated one
generate_user_whole_name(string, host) ==
    Take(string, 10) \o SubSeq(generate_password(string, host), 1, 6)

generate_user(string, host) ==
    LET s == IF Len(string) > 10 THEN SubSeq(string, 1, 10) ELSE string
    IN  s \o SubSeq(generate_password(s, host), 1, 6)

generate_group(string) ==
    IF Len(string) > 10
    THEN SubSeq(string, 1, 10) \o <<"_", "g", "r", "o", "u", "p">>
    ELSE string

(* -------------------------- canonicalization -------------------------- *)
\* re.search(r"[\W\s]", name) is not None
HasNonWord(name) == \E i \in 1..Len(name) : name[i] \notin WordChars

\* a run of offending characters is replaced by one underscore
RECURSIVE CollapseRuns(_, _)
CollapseRuns(name, inRun) ==
    IF name = <<>> THEN <<>>
    ELSE IF Head(name) \in WordChars
         THEN <<Head(name)>> \o CollapseRuns(Tail(name), FALSE)
         ELSE (IF inRun THEN <<>> ELSE <<"_">>)
                  \o CollapseRuns(Tail(name), TRUE)

canonicalize_db_name_runs(name) ==
    IF HasNonWord(name)
    THEN CollapseRuns(name, FALSE) \o SubSeq(Sha1Hex(name), 1, 10)
    ELSE name

\* the offending characters are replaced by a character that still offends
canonicalize_db_name_dash(name) ==
    IF HasNonWord(name)
    THEN [i \in 1..Len(name) |->
             IF name[i] \notin WordChars THEN "-" ELSE name[i]]
         \o SubSeq(Sha1Hex(name), 1, 10)
    ELSE name

canonicalize_db_name(name) ==
    IF HasNonWord(name)
    THEN [i \in 1..Len(name) |->
             IF name[i] \notin WordChars THEN "_" ELSE name[i]]
         \o SubSeq(Sha1Hex(name), 1, 10)
    ELSE name


(* ------------------------------- state -------------------------------- *)
VARIABLES
    catalog,    \* the rows of table "instance", in insertion order
    roles,      \* the roles of the shared cluster
    dbs,        \* the databases of the shared cluster: name -> owner role
    pc,         \* per caller: the statement its call is at
    call,       \* per caller: the call in progress
    inst,       \* per caller: the Instance object of the call
    tx,         \* per caller: the uncommitted writes of app.db.transaction()
    result,     \* per caller: what the call returned or raised
    issued,     \* per caller: the statements the call sent to the cluster
    before,     \* per caller: catalog and cluster when the call began
    live,       \* names created successfully and not deleted since
    deleted,    \* names deleted successfully and not created since
    val,        \* single manager: the name at hand
    hist,       \* single manager: the name given and its canonicalizations
    host,       \* single manager: the unit host
    out         \* single manager: what create_user returned

vars == <<catalog, roles, dbs, pc, call, inst, tx, result, issued, before,
          live, deleted, val, hist, host, out>>


fnVars == <<val, hist, host, out>>

callVars == <<pc, call, inst, tx, result, issued, before, live, deleted>>

Procs == {"p1", "p2"}

(* ------------------------------ inputs -------------------------------- *)
LongPrefix == <<"i", "n", "s", "t", "a", "n", "c", "e", "_", "0">>

\* two names over 10 characters that share their first 10, a name that
\* needs canonicalizing, its canonical form given directly, a short name
AllRawNames ==
    << LongPrefix \o <<"1">>,
       <<"m", "y", " ", "d", "b", "!">>,
       LongPrefix \o <<"2">>,
       canonicalize_db_name(<<"m", "y", " ", "d", "b", "!">>),
       <<"d", "b">> >>

RawNames == {AllRawNames[i] : i \in 1..Min(NumNames, Len(AllRawNames))}

Hosts == {<<"h", "1">>, <<"h", "2">>}

FnAlphabet == {"a", "_", " ", "-"}

RECURSIVE StringsOfLen(_)
StringsOfLen(n) ==
    IF n = 0 THEN {<<>>}
    ELSE {<<c>> \o s : c \in FnAlphabet, s \in StringsOfLen(n - 1)}

ShortStrings == UNION {StringsOfLen(n) : n \in 0..MaxLen}

FnInputs == ShortStrings \cup {LongPrefix \o s : s \in ShortStrings}

(* ----------------------------- exceptions ----------------------------- *)
NoError == [type |-> "None", msg |-> <<>>]

\* psycopg2.ProgrammingError for SQLSTATE 42710 / 42P04
DuplicateObject(kind) ==
    [type |-> "ProgrammingError", msg |-> <<kind, "already", "exists">>]

\* psycopg2.ProgrammingError for SQLSTATE 3D000 / 42704
UndefinedObject(kind) ==
    [type |-> "ProgrammingError", msg |-> <<kind, "does", "not", "exist">>]

PermissionDenied ==
    [type |-> "ProgrammingError", msg |-> <<"permission", "denied">>]

ConnectionLost ==
    [type |-> "OperationalError", msg |-> <<"connection", "lost">>]

\* what a statement can fail with whatever the state of the server
ClusterFaults == {NoError, PermissionDenied, ConnectionLost}

CatalogFaults == {NoError, ConnectionLost}

\* the server's own refusal comes first, then the injected fault
StatementError(refusal, fault) == IF refusal # NoError THEN refusal ELSE fault

\* 'already exists' in e.args[0]
SaysAlreadyExists(msg) ==
    \E i \in 1..(Len(msg) - 1) : msg[i] = "already" /\ msg[i + 1] = "exists"

\* only the refusal of CREATE DATABASE is taken for an existing instance
CreateDatabaseHandlerDatabaseOnly(e) ==
    IF e.type = "ProgrammingError" /\ e.msg # <<>> /\ SaysAlreadyExists(e.msg)
       /\ e.msg[1] = "database"
    THEN "InstanceAlreadyExists"
    ELSE e.type

\* the handler re-raises everything as it came
CreateDatabaseHandlerReraise(e) == e.type

\* except psycopg2.ProgrammingError as e: ... raise
CreateDatabaseHandler(e) ==
    IF e.type = "ProgrammingError" /\ e.msg # <<>> /\ SaysAlreadyExists(e.msg)
    THEN "InstanceAlreadyExists"
    ELSE e.type

\* the failed unpacking of None is not caught
RetrieveHandlerUncaught(excType) == excType

\* except TypeError: raise InstanceNotFound
RetrieveHandler(excType) ==
    IF excType = "TypeError" THEN "InstanceNotFound" ELSE excType

(* ------------------------------ catalog ------------------------------- *)
\* SELECT ... WHERE name = n
SelectByName(cat, n) == SelectSeq(cat, LAMBDA row : row.name = n)

\* the existence check lets every name through
AlreadyInCatalogNever(rows) == FALSE

\* if cursor.fetchone(): raise InstanceAlreadyExists
AlreadyInCatalog(rows) == rows # <<>>

\* name, state, shared = cursor.fetchone()
UnpackError(rows) == IF rows = <<>> THEN "TypeError" ELSE "None"

\* the DELETE removes nothing
DeleteByNameNothing(cat, n) == cat

\* DELETE FROM instance WHERE name = n
DeleteByName(cat, n) == SelectSeq(cat, LAMBDA row : row.name # n)

RECURSIVE ApplyWrites(_, _)
ApplyWrites(cat, writes) ==
    IF writes = <<>> THEN cat
    ELSE LET w == Head(writes)
         IN  ApplyWrites(IF w.kind = "INSERT" THEN Append(cat, w.row)
                         ELSE DeleteByName(cat, w.name),
                         Tail(writes))

(* ------------------------------ Instance ------------------------------ *)
\* Instance.__init__
Instance(name) ==
    [name |-> canonicalize_db_name(name), shared |-> TRUE, state |-> "pending"]

NoInstance == [name |-> <<>>, shared |-> FALSE, state |-> "none"]

NoCall == [op |-> "none", raw |-> <<>>, overlap |-> FALSE]

NoResult ==
    [op |-> "none", name |-> <<>>, status |-> "none", inst |-> NoInstance,
     cause |-> NoError, where |-> "none", up |-> FALSE, ping |-> FALSE,
     asked |-> FALSE, value |-> <<>>]

NoSnapshot == [catalog |-> <<>>, roles |-> {}, dbs |-> {}]

\* the state stays what the constructor set
MarkRunningForgotten(i) == i

\* instance.state = 'running'
MarkRunning(i) == [i EXCEPT !.state = "running"]

\* a manager is built whatever the shared flag says
ClusterManagerErrorNever(i) == "None"

\* Instance.cluster_manager: only the shared cluster is supported
ClusterManagerError(i) == IF i.shared THEN "None" ELSE "NotImplementedError"


(* ------------------------------ cluster ------------------------------- *)
DbNames(ds) == {d.name : d \in ds}

\* the role a new database belongs to until its owner is changed
AdminRole == <<"p", "o", "s", "t", "g", "r", "e", "s">>

CreateRoleRefusal(rs, role) ==
    IF role \in rs THEN DuplicateObject("role") ELSE NoError

CreateDatabaseRefusal(ds, name) ==
    IF name \in DbNames(ds) THEN DuplicateObject("database") ELSE NoError

AlterOwnerRefusal(rs, ds, name, role) ==
    IF name \notin DbNames(ds) THEN UndefinedObject("database")
    ELSE IF role \notin rs THEN UndefinedObject("role")
    ELSE NoError

DropDatabaseRefusal(ds, name) ==
    IF name \notin DbNames(ds) THEN UndefinedObject("database") ELSE NoError

\* a role that still owns a database cannot be dropped
DropRoleRefusal(rs, ds, role) ==
    IF role \notin rs THEN UndefinedObject("role")
    ELSE IF \E d \in ds : d.owner = role
         THEN [type |-> "InternalError", msg |-> <<"objects", "depend">>]
         ELSE NoError

\* DROP ROLE
DropRole(rs, role) == rs \ {role}

\* DROP DATABASE
DropDb(ds, name) == {d \in ds : d.name # name}

(* ---------------------------- call plumbing --------------------------- *)
\* no call is in progress and no caller holds a result
Quiescent == \A q \in Procs : pc[q] = "idle"

Snapshot == [catalog |-> catalog, roles |-> roles, dbs |-> dbs]

\* app.db.transaction(): the writes not committed are rolled back
TxDiscard(p) == [tx EXCEPT ![p] = <<>>]

\* app.db.transaction(): commit makes the writes visible
TxCommit(p) == ApplyWrites(catalog, tx[p])

\* the call returns or raises, and the with block is left
Finish(p, status, i, cause, where) ==
    /\ pc' = [pc EXCEPT ![p] = "done"]
    /\ result' = [result EXCEPT ![p] =
                     [op |-> call[p].op, name |-> inst[p].name,
                      status |-> status, inst |-> i, cause |-> cause,
                      where |-> where, up |-> FALSE, ping |-> FALSE,
                      asked |-> FALSE, value |-> <<>>]]
    /\ tx' = TxDiscard(p)

Goto(p, label) == pc' = [pc EXCEPT ![p] = label]

Issue(p, stmt) == issued' = [issued EXCEPT ![p] = Append(@, stmt)]

Begin(p, op, raw, label) ==
    /\ pc[p] = "idle"
    /\ Quiescent
    /\ call' = [call EXCEPT ![p] =
                    [op |-> op, raw |-> raw, overlap |-> FALSE]]
    /\ inst' = [inst EXCEPT ![p] = Instance(raw)]
    /\ before' = [before EXCEPT ![p] = Snapshot]
    /\ issued' = [issued EXCEPT ![p] = <<>>]
    /\ Goto(p, label)
    /\ UNCHANGED <<catalog, roles, dbs, tx, result, live, deleted, fnVars>>

(* --------------------------- Instance.create -------------------------- *)
\* the database is created before the role that is to own it
CreateDatabaseStepDbFirst(k) ==
    <<"create_db", "create_role", "create_owner">>[k]

\* the order of the three cursor.execute calls of create_database
CreateDatabaseStep(k) == <<"create_role", "create_db", "create_owner">>[k]

CreateBegin(p) == \E raw \in RawNames : Begin(p, "create", raw, "create_select")

\* SELECT 1 FROM instance WHERE name = ...; instance.shared = True
CreateSelect(p) ==
    /\ pc[p] = "create_select"
    /\ \E fault \in CatalogFaults :
         IF fault # NoError
         THEN Finish(p, fault.type, NoInstance, fault, "catalog") /\ UNCHANGED inst
         ELSE IF AlreadyInCatalog(SelectByName(catalog, inst[p].name))
         THEN Finish(p, "InstanceAlreadyExists", NoInstance, NoError, "none")
              /\ UNCHANGED inst
         ELSE /\ inst' = [inst EXCEPT ![p].shared = TRUE]
              /\ Goto(p, CreateDatabaseStep(1))
              /\ UNCHANGED <<result, tx>>
    /\ UNCHANGED <<catalog, roles, dbs, call, issued, before, live, deleted, fnVars>>

\* the failure is written to the catalog as a row in state error
CreateDatabaseFailedRecorded(p, e) ==
    /\ Finish(p, CreateDatabaseHandler(e), NoInstance, e, "create_database")
    /\ catalog' = Append(catalog, [name |-> inst[p].name, state |-> "error",
                                   shared |-> inst[p].shared])

\* create_database raised e inside Instance.create's try block: the handler
\* raises and the INSERT is never reached
CreateDatabaseFailed(p, e) ==
    /\ Finish(p, CreateDatabaseHandler(e), NoInstance, e, "create_database")
    /\ UNCHANGED catalog

\* CREATE ROLE <group> WITH NOLOGIN
CreateRole(p) ==
    /\ pc[p] = "create_role"
    /\ IF ClusterManagerError(inst[p]) # "None"
       THEN /\ Finish(p, ClusterManagerError(inst[p]), NoInstance, NoError,
                   "none")
            /\ UNCHANGED <<catalog, roles, issued>>
       ELSE \E fault \in ClusterFaults :
              LET group == generate_group(inst[p].name)
                  e == StatementError(CreateRoleRefusal(roles, group), fault)
              IN  /\ Issue(p, <<"CREATE ROLE", group>>)
                  /\ IF e = NoError
                     THEN /\ roles' = roles \cup {group}
                          /\ Goto(p, CreateDatabaseStep(2))
                          /\ UNCHANGED <<catalog, result, tx>>
                     ELSE /\ CreateDatabaseFailed(p, e)
                          /\ UNCHANGED roles
    /\ UNCHANGED <<dbs, call, inst, before, live, deleted, fnVars>>

\* CREATE DATABASE <name>
CreateDb(p) ==
    /\ pc[p] = "create_db"
    /\ \E fault \in ClusterFaults :
         LET name == inst[p].name
             e == StatementError(CreateDatabaseRefusal(dbs, name), fault)
         IN  /\ Issue(p, <<"CREATE DATABASE", name>>)
             /\ IF e = NoError
                THEN /\ dbs' = dbs \cup {[name |-> name, owner |-> AdminRole]}
                     /\ Goto(p, CreateDatabaseStep(3))
                     /\ UNCHANGED <<catalog, result, tx>>
                ELSE /\ CreateDatabaseFailed(p, e)
                     /\ UNCHANGED dbs
    /\ UNCHANGED <<roles, call, inst, before, live, deleted, fnVars>>

\* ALTER DATABASE <name> OWNER TO <group>
CreateOwner(p) ==
    /\ pc[p] = "create_owner"
    /\ \E fault \in ClusterFaults :
         LET name == inst[p].name
             group == generate_group(name)
             e == StatementError(AlterOwnerRefusal(roles, dbs, name, group),
                                 fault)
         IN  /\ Issue(p, <<"ALTER DATABASE", name>>)
             /\ IF e = NoError
                THEN /\ dbs' = DropDb(dbs, name)
                                   \cup {[name |-> name, owner |-> group]}
                     /\ Goto(p, "create_insert")
                     /\ UNCHANGED <<catalog, result, tx>>
                ELSE /\ CreateDatabaseFailed(p, e)
                     /\ UNCHANGED dbs
    /\ UNCHANGED <<roles, call, inst, before, live, deleted, fnVars>>

\* instance.state = 'running'; INSERT INTO instance (name, state, shared)
CreateInsert(p) ==
    /\ pc[p] = "create_insert"
    /\ \E fault \in CatalogFaults :
         LET i == MarkRunning(inst[p])
         IN  IF fault # NoError
             THEN Finish(p, fault.type, NoInstance, fault, "catalog") /\ UNCHANGED inst
             ELSE /\ inst' = [inst EXCEPT ![p] = i]
                  /\ tx' = [tx EXCEPT ![p] =
                               Append(@, [kind |-> "INSERT", name |-> i.name,
                                          row |-> [name |-> i.name,
                                                   state |-> i.state,
                                                   shared |-> i.shared]])]
                  /\ Goto(p, "create_commit")
                  /\ UNCHANGED result
    /\ UNCHANGED <<catalog, roles, dbs, call, issued, before, live, deleted, fnVars>>

\* leaving the with block: commit, then return instance
CreateCommit(p) ==
    /\ pc[p] = "create_commit"
    /\ \E fault \in CatalogFaults :
         IF fault # NoError
         THEN Finish(p, fault.type, NoInstance, fault, "catalog")
              /\ UNCHANGED <<catalog, live, deleted>>
         ELSE /\ catalog' = TxCommit(p)
              /\ live' = live \cup {inst[p].name}
              /\ deleted' = deleted \ {inst[p].name}
              /\ Finish(p, "ok", inst[p], NoError, "none")
    /\ UNCHANGED <<roles, dbs, call, inst, issued, before, fnVars>>


(* -------------------------- Instance.retrieve ------------------------- *)
\* the row fetched is not copied into the instance
RetrievedDefault(i, rows) == i

\* the instance retrieve builds from the row it fetched
Retrieved(i, rows) ==
    [i EXCEPT !.state = rows[1].state, !.shared = rows[1].shared]

\* what the SELECT and the unpacking of its row raise
RetrieveError(fault, rows) ==
    IF fault # NoError THEN fault.type ELSE RetrieveHandler(UnpackError(rows))

RetrieveBegin(p) ==
    \E raw \in RawNames : Begin(p, "retrieve", raw, "retrieve_select")

\* SELECT name, state, shared FROM instance WHERE name = ...; the commit of
\* this read-only transaction is part of the step
RetrieveSelect(p) ==
    /\ pc[p] = "retrieve_select"
    /\ \E fault \in CatalogFaults :
         LET rows == SelectByName(catalog, inst[p].name)
             exc == RetrieveError(fault, rows)
         IN  IF exc # "None"
             THEN Finish(p, exc, NoInstance, fault,
                         IF fault # NoError THEN "catalog" ELSE "none")
             ELSE Finish(p, "ok", Retrieved(inst[p], rows), NoError, "none")
    /\ UNCHANGED <<catalog, roles, dbs, call, inst, issued, before, live,
                   deleted, fnVars>>

(* --------------------------- Instance.delete -------------------------- *)
\* the catalog row is deleted before the database and the role are dropped
DeleteStepRowFirst(k) == <<"delete_delete", "delete_dropdb", "delete_droprole">>[k]

\* the order of drop_database's two statements and the DELETE
DeleteStep(k) == <<"delete_dropdb", "delete_droprole", "delete_delete">>[k]

DeleteBegin(p) == \E raw \in RawNames : Begin(p, "delete", raw, "delete_select")

\* instance = cls.retrieve(name)
DeleteSelect(p) ==
    /\ pc[p] = "delete_select"
    /\ \E fault \in CatalogFaults :
         LET rows == SelectByName(catalog, inst[p].name)
             exc == RetrieveError(fault, rows)
         IN  IF exc # "None"
             THEN Finish(p, exc, NoInstance, fault,
                         IF fault # NoError THEN "catalog" ELSE "none")
                  /\ UNCHANGED inst
             ELSE /\ inst' = [inst EXCEPT ![p] = Retrieved(@, rows)]
                  /\ Goto(p, DeleteStep(1))
                  /\ UNCHANGED <<result, tx>>
    /\ UNCHANGED <<catalog, roles, dbs, call, issued, before, live, deleted, fnVars>>

\* DROP DATABASE <name>
DeleteDropDb(p) ==
    /\ pc[p] = "delete_dropdb"
    /\ IF ClusterManagerError(inst[p]) # "None"
       THEN /\ Finish(p, ClusterManagerError(inst[p]), NoInstance, NoError, "none")
            /\ UNCHANGED <<dbs, issued>>
       ELSE \E fault \in ClusterFaults :
              LET name == inst[p].name
                  e == StatementError(DropDatabaseRefusal(dbs, name), fault)
              IN  /\ Issue(p, <<"DROP DATABASE", name>>)
                  /\ IF e = NoError
                     THEN /\ dbs' = DropDb(dbs, name)
                          /\ Goto(p, DeleteStep(2))
                          /\ UNCHANGED <<result, tx>>
                     ELSE /\ Finish(p, e.type, NoInstance, e, "drop_database")
                          /\ UNCHANGED dbs
    /\ UNCHANGED <<catalog, roles, call, inst, before, live, deleted, fnVars>>

\* DROP ROLE <group>
DeleteDropRole(p) ==
    /\ pc[p] = "delete_droprole"
    /\ \E fault \in ClusterFaults :
         LET group == generate_group(inst[p].name)
             e == StatementError(DropRoleRefusal(roles, dbs, group), fault)
         IN  /\ Issue(p, <<"DROP ROLE", group>>)
             /\ IF e = NoError
                THEN /\ roles' = DropRole(roles, group)
                     /\ Goto(p, DeleteStep(3))
                     /\ UNCHANGED <<result, tx>>
                ELSE /\ Finish(p, e.type, NoInstance, e, "drop_database")
                     /\ UNCHANGED roles
    /\ UNCHANGED <<catalog, dbs, call, inst, before, live, deleted, fnVars>>

\* DELETE FROM instance WHERE name = ...
DeleteDelete(p) ==
    /\ pc[p] = "delete_delete"
    /\ \E fault \in CatalogFaults :
         IF fault # NoError
         THEN Finish(p, fault.type, NoInstance, fault, "catalog")
         ELSE /\ tx' = [tx EXCEPT ![p] =
                           Append(@, [kind |-> "DELETE",
                                      name |-> inst[p].name,
                                      row |-> NoInstance])]
              /\ Goto(p, "delete_commit")
              /\ UNCHANGED result
    /\ UNCHANGED <<catalog, roles, dbs, call, inst, issued, before, live,
                   deleted, fnVars>>

\* leaving the with block: commit
DeleteCommit(p) ==
    /\ pc[p] = "delete_commit"
    /\ \E fault \in CatalogFaults :
         IF fault # NoError
         THEN Finish(p, fault.type, NoInstance, fault, "catalog")
              /\ UNCHANGED <<catalog, live, deleted>>
         ELSE /\ catalog' = TxCommit(p)
              /\ live' = live \ {inst[p].name}
              /\ deleted' = deleted \cup {inst[p].name}
              /\ Finish(p, "ok", NoInstance, NoError, "none")
    /\ UNCHANGED <<roles, dbs, call, inst, issued, before, fnVars>>

(* --------------------------- Instance.is_up --------------------------- *)
\* self.db(database).ping(): a round trip that succeeds only on a database
\* that exists
PingOutcomes(ds, name) == IF name \in DbNames(ds) THEN BOOLEAN ELSE {FALSE}

\* the cluster is asked whatever the state of the instance
IsUpAsksClusterAlways(i) == TRUE

\* self.state == "running" and ...: the right operand is evaluated only
\* when the left one is true
IsUpAsksCluster(i) == i.state = "running"

\* the caller asks the instance that create or retrieve handed it
IsUp(p) ==
    /\ pc[p] = "done"
    /\ result[p].op \in {"create", "retrieve"}
    /\ result[p].status = "ok"
    /\ LET i == result[p].inst
       IN  \E ping \in PingOutcomes(dbs, i.name) :
             result' = [result EXCEPT ![p] =
                 IF ~IsUpAsksCluster(i)
                 THEN [@ EXCEPT !.op = "is_up", !.up = FALSE, !.ping = ping]
                 ELSE IF ClusterManagerError(i) # "None"
                 THEN [@ EXCEPT !.op = "is_up", !.ping = ping,
                                !.status = ClusterManagerError(i)]
                 ELSE [@ EXCEPT !.op = "is_up", !.up = ping, !.ping = ping,
                                !.asked = TRUE]]
    /\ UNCHANGED <<catalog, roles, dbs, pc, call, inst, tx, issued, before,
                   live, deleted, fnVars>>

\* the caller is done with what the call gave it
Ack(p) ==
    /\ pc[p] = "done"
    /\ pc' = [pc EXCEPT ![p] = "idle"]
    /\ call' = [call EXCEPT ![p] = NoCall]
    /\ inst' = [inst EXCEPT ![p] = NoInstance]
    /\ result' = [result EXCEPT ![p] = NoResult]
    /\ issued' = [issued EXCEPT ![p] = <<>>]
    /\ before' = [before EXCEPT ![p] = NoSnapshot]
    /\ UNCHANGED <<catalog, roles, dbs, tx, live, deleted, fnVars>>

(* --------------------------- specification ---------------------------- *)
NoOut ==
    [status |-> "none", username |-> <<>>, password |-> <<>>,
     rolesBefore |-> {}, drop |-> "none", dropHost |-> <<>>,
     dropFault |-> NoError]

\* no caller has called yet
NoCalls ==
    /\ pc = [p \in Procs |-> "idle"]
    /\ call = [p \in Procs |-> NoCall]
    /\ inst = [p \in Procs |-> NoInstance]
    /\ tx = [p \in Procs |-> <<>>]
    /\ result = [p \in Procs |-> NoResult]
    /\ issued = [p \in Procs |-> <<>>]
    /\ before = [p \in Procs |-> NoSnapshot]
    /\ live = {}
    /\ deleted = {}

Init ==
    /\ catalog = <<>>
    /\ roles = {}
    /\ dbs = {}
    /\ NoCalls
    /\ val = <<>>
    /\ hist = <<>>
    /\ host = <<>>
    /\ out = NoOut

Next ==
    \E p \in Procs :
        \/ CreateBegin(p)
        \/ CreateSelect(p)
        \/ CreateRole(p)
        \/ CreateDb(p)
        \/ CreateOwner(p)
        \/ CreateInsert(p)
        \/ CreateCommit(p)
        \/ RetrieveBegin(p)
        \/ RetrieveSelect(p)
        \/ DeleteBegin(p)
        \/ DeleteSelect(p)
        \/ DeleteDropDb(p)
        \/ DeleteDropRole(p)
        \/ DeleteDelete(p)
        \/ DeleteCommit(p)
        \/ IsUp(p)
        \/ Ack(p)

Spec == Init /\ [][Next]_vars


(* ------------- one ClusterManager serving one database ---------------- *)
\* canonicalize_db_name applied to the name at hand, as Instance.__init__
\* does with the name it is given
FnCanonicalize ==
    /\ Len(hist) <= MaxApply
    /\ out = NoOut
    /\ val' = canonicalize_db_name(val)
    /\ hist' = Append(hist, val')
    /\ UNCHANGED <<catalog, roles, dbs, callVars, host, out>>

CreateUserRefusal(rs, username, group) ==
    IF group \notin rs THEN UndefinedObject("role")
    ELSE IF username \in rs THEN DuplicateObject("role")
    ELSE NoError

\* ClusterManager.create_user(database, host) on a canonical database name
FnCreateUser ==
    /\ out = NoOut
    /\ ~HasNonWord(val)
    /\ \E fault \in ClusterFaults :
         LET username == generate_user(val, host)
             password == generate_password(val, host)
             group == generate_group(val)
             e == StatementError(CreateUserRefusal(roles, username, group),
                                 fault)
         IN  IF e = NoError
             THEN /\ roles' = roles \cup {username}
                  /\ out' = [NoOut EXCEPT !.status = "ok",
                                          !.username = username,
                                          !.password = password,
                                          !.rolesBefore = roles]
             ELSE /\ out' = [NoOut EXCEPT !.status = e.type,
                                          !.rolesBefore = roles]
                  /\ UNCHANGED roles
    /\ UNCHANGED <<catalog, dbs, callVars, val, hist, host>>

DropUserRefusal(rs, username) ==
    IF username \notin rs THEN UndefinedObject("role") ELSE NoError

\* the role is named after the password of the whole database name
DropUserNameWhole(database, h) == generate_user_whole_name(database, h)

\* username = generate_user(database, host) in drop_user
DropUserName(database, h) == generate_user(database, h)

\* ClusterManager.drop_user(database, host), after create_user, for the host
\* create_user was called with or for another one
FnDropUser ==
    /\ out.status = "ok"
    /\ out.drop = "none"
    /\ \E h \in Hosts, fault \in ClusterFaults :
         LET username == DropUserName(val, h)
             e == StatementError(DropUserRefusal(roles, username), fault)
         IN  /\ roles' = IF e = NoError THEN DropRole(roles, username)
                         ELSE roles
             /\ out' = [out EXCEPT
                           !.drop = IF e = NoError THEN "ok" ELSE e.type,
                           !.dropHost = h, !.dropFault = fault]
    /\ UNCHANGED <<catalog, dbs, callVars, val, hist, host>>

\* the cluster holds the database of the name and its group role
InitFn ==
    /\ catalog = <<>>
    /\ NoCalls
    /\ \E v \in FnInputs, h \in Hosts :
         LET name == canonicalize_db_name(v)
         IN  /\ val = v
             /\ hist = <<v>>
             /\ host = h
             /\ roles = {generate_group(name)}
             /\ dbs = {[name |-> name, owner |-> generate_group(name)]}
    /\ out = NoOut

NextFn == FnCanonicalize \/ FnCreateUser \/ FnDropUser

SpecFn == InitFn /\ [][NextFn]_vars


(* ------------- instances of a catalog that already has a row ---------- *)
\* Instance.STATE_CHOICES
States == {"pending", "running", "error"}

\* app.config['SHARED_HOST'], ['SHARED_PORT'], and the values that
\* ['SHARED_PUBLIC_HOST'] may have: unset or a host name
SHARED_HOST == <<"d", "b", "h", "o", "s", "t">>

SHARED_PORT == 5432

PublicHostSettings == {<<>>, <<"p", "u", "b", "l", "i", "c">>}

\* ClusterManager.public_host
public_host(publicHost, h) == IF publicHost # <<>> THEN publicHost ELSE h

\* the caller holds an instance that create or retrieve returned
Holds(p) ==
    /\ pc[p] = "done"
    /\ call[p].op \in {"create", "retrieve"}
    /\ result[p].inst # NoInstance

\* what a method of the instance held returns or raises
MethodResult(p, op, status, cause, value) ==
    result' = [result EXCEPT ![p] =
                  [@ EXCEPT !.op = op, !.status = status, !.cause = cause,
                            !.where = "none", !.value = value, !.up = FALSE,
                            !.ping = FALSE, !.asked = FALSE]]

\* a method begins: nothing sent yet, catalog and cluster as they are now
MethodBegin(p) ==
    /\ Holds(p)
    /\ before' = [before EXCEPT ![p] = Snapshot]

\* the method fails on self.cluster_manager
MethodUnsupported(p, op) ==
    /\ MethodResult(p, op, ClusterManagerError(result[p].inst), NoError, <<>>)
    /\ issued' = [issued EXCEPT ![p] = <<>>]
    /\ UNCHANGED roles

\* Instance.create_user(host)
InstCreateUser(p) ==
    /\ MethodBegin(p)
    /\ result[p].op \in {"create", "retrieve"}
    /\ result[p].status = "ok"
    /\ LET i == result[p].inst
       IN  IF ClusterManagerError(i) # "None"
           THEN MethodUnsupported(p, "create_user")
           ELSE \E h \in Hosts, fault \in ClusterFaults :
                  LET username == generate_user(i.name, h)
                      password == generate_password(i.name, h)
                      group == generate_group(i.name)
                      e == StatementError(
                               CreateUserRefusal(roles, username, group),
                               fault)
                  IN  /\ issued' = [issued EXCEPT ![p] =
                                       << <<"CREATE ROLE", username>> >>]
                      /\ roles' = IF e = NoError THEN roles \cup {username}
                                  ELSE roles
                      /\ IF e = NoError
                         THEN MethodResult(p, "create_user", "ok", NoError,
                                           <<username, password>>)
                         ELSE MethodResult(p, "create_user", e.type, e, <<>>)
    /\ UNCHANGED <<catalog, dbs, pc, call, inst, tx, live, deleted, fnVars>>

\* Instance.drop_user(host)
InstDropUser(p) ==
    /\ MethodBegin(p)
    /\ result[p].op \in {"create", "retrieve", "create_user"}
    /\ LET i == result[p].inst
       IN  IF ClusterManagerError(i) # "None"
           THEN MethodUnsupported(p, "drop_user")
           ELSE \E h \in Hosts, fault \in ClusterFaults :
                  LET username == DropUserName(i.name, h)
                      e == StatementError(DropUserRefusal(roles, username),
                                          fault)
                  IN  /\ issued' = [issued EXCEPT ![p] =
                                       << <<"DROP ROLE", username>> >>]
                      /\ roles' = IF e = NoError
                                  THEN DropRole(roles, username) ELSE roles
                      /\ IF e = NoError
                         THEN MethodResult(p, "drop_user", "ok", NoError, <<>>)
                         ELSE MethodResult(p, "drop_user", e.type, e, <<>>)
    /\ UNCHANGED <<catalog, dbs, pc, call, inst, tx, live, deleted, fnVars>>

\* Instance.public_host
InstPublicHost(p) ==
    /\ MethodBegin(p)
    /\ result[p].op \in {"create", "retrieve"}
    /\ result[p].status = "ok"
    /\ IF ClusterManagerError(result[p].inst) # "None"
       THEN MethodUnsupported(p, "public_host")
       ELSE /\ \E setting \in PublicHostSettings :
                 MethodResult(p, "public_host", "ok", NoError,
                              public_host(setting, SHARED_HOST))
            /\ issued' = [issued EXCEPT ![p] = <<>>]
            /\ UNCHANGED roles
    /\ UNCHANGED <<catalog, dbs, pc, call, inst, tx, live, deleted, fnVars>>

\* Instance.port
InstPort(p) ==
    /\ MethodBegin(p)
    /\ result[p].op \in {"create", "retrieve"}
    /\ result[p].status = "ok"
    /\ IF ClusterManagerError(result[p].inst) # "None"
       THEN MethodUnsupported(p, "port")
       ELSE /\ MethodResult(p, "port", "ok", NoError, <<SHARED_PORT>>)
            /\ issued' = [issued EXCEPT ![p] = <<>>]
            /\ UNCHANGED roles
    /\ UNCHANGED <<catalog, dbs, pc, call, inst, tx, live, deleted, fnVars>>

\* the catalog holds one row, of any state and topology, and the cluster the
\* database and the group role of its name
InitStored ==
    /\ NoCalls
    /\ \E raw \in RawNames, st \in States, sh \in BOOLEAN :
         LET name == canonicalize_db_name(raw)
         IN  /\ catalog = <<[name |-> name, state |-> st, shared |-> sh]>>
             /\ roles = {generate_group(name)}
             /\ dbs = {[name |-> name, owner |-> generate_group(name)]}
    /\ val = <<>>
    /\ hist = <<>>
    /\ host = <<>>
    /\ out = NoOut

NextStored ==
    \E p \in Procs :
        \/ RetrieveBegin(p)
        \/ RetrieveSelect(p)
        \/ DeleteBegin(p)
        \/ DeleteSelect(p)
        \/ DeleteDropDb(p)
        \/ DeleteDropRole(p)
        \/ DeleteDelete(p)
        \/ DeleteCommit(p)
        \/ IsUp(p)
        \/ InstCreateUser(p)
        \/ InstDropUser(p)
        \/ InstPublicHost(p)
        \/ InstPort(p)
        \/ Ack(p)

SpecStored == InitStored /\ [][NextStored]_vars

(* --------------------- creates that run side by side ------------------ *)
InProgress(q) == pc[q] \notin {"idle", "done"}

\* a caller calls while the call of another may be under way; both calls are
\* then marked as overlapping
BeginConc(p, op, raw, label) ==
    /\ pc[p] = "idle"
    /\ call' = [q \in Procs |->
                   IF q = p
                   THEN [op |-> op, raw |-> raw,
                         overlap |-> \E r \in Procs \ {p} : InProgress(r)]
                   ELSE IF InProgress(q)
                   THEN [call[q] EXCEPT !.overlap = TRUE]
                   ELSE call[q]]
    /\ inst' = [inst EXCEPT ![p] = Instance(raw)]
    /\ before' = [before EXCEPT ![p] = Snapshot]
    /\ issued' = [issued EXCEPT ![p] = <<>>]
    /\ Goto(p, label)
    /\ UNCHANGED <<catalog, roles, dbs, tx, result, live, deleted, fnVars>>

ConcRawNames ==
    {AllRawNames[i] :
        i \in 1..Min(Min(NumNames, NumConcNames), Len(AllRawNames))}

CreateBeginConc(p) ==
    \E raw \in ConcRawNames : BeginConc(p, "create", raw, "create_select")

NextConc ==
    \E p \in Procs :
        \/ CreateBeginConc(p)
        \/ CreateSelect(p)
        \/ CreateRole(p)
        \/ CreateDb(p)
        \/ CreateOwner(p)
        \/ CreateInsert(p)
        \/ CreateCommit(p)
        \/ Ack(p)

SpecConc == Init /\ [][NextConc]_vars

(* ------------------------------ properties ---------------------------- *)
CanonNames == {canonicalize_db_name(raw) : raw \in RawNames}

HasRow(cat, n) == SelectByName(cat, n) # <<>>

Returned(p, op) == pc[p] = "done" /\ result[p].op = op

\* C1: whenever no call is in progress, a catalog row for a canonical name
\* exists if and only if the database of that name and its group role both
\* exist on the cluster, whichever statements failed on the way.
CatalogMatchesCluster ==
    (\A q \in Procs : pc[q] \in {"idle", "done"}) =>
        \A n \in CanonNames :
            HasRow(catalog, n) <=>
                (n \in DbNames(dbs) /\ generate_group(n) \in roles)

\* C2: a create of a name that has a catalog row fails with
\* InstanceAlreadyExists (unless the catalog query itself fails), sends
\* nothing to the cluster and leaves the catalog as it was; the catalog never
\* holds two rows of one name.
CreateExistingRefused ==
    /\ \A p \in Procs :
         (Returned(p, "create") /\ HasRow(before[p].catalog, result[p].name))
            => /\ result[p].where # "catalog"
                    => result[p].status = "InstanceAlreadyExists"
               /\ issued[p] = <<>>
               /\ catalog = before[p].catalog
    /\ \A n \in CanonNames : Len(SelectByName(catalog, n)) <= 1

CreateExistingRefusedWitness ==
    \E p \in Procs :
        /\ Returned(p, "create")
        /\ HasRow(before[p].catalog, result[p].name)
        /\ result[p].status = "InstanceAlreadyExists"
        /\ call[p].raw # result[p].name

\* C3: from a successful create of a name until a successful delete of it, the
\* catalog row of the name is in state running, a retrieve that reaches the
\* catalog returns an instance in state running, and is_up on that instance
\* answers what the cluster answers.
CreatedStaysRunning ==
    /\ \A n \in live :
         /\ HasRow(catalog, n)
         /\ \A i \in 1..Len(catalog) :
              catalog[i].name = n => catalog[i].state = "running"
    /\ \A p \in Procs :
         (Returned(p, "retrieve") /\ result[p].name \in live
            /\ result[p].where # "catalog")
            => /\ result[p].status = "ok"
               /\ result[p].inst.name = result[p].name
               /\ result[p].inst.state = "running"
    /\ \A p \in Procs :
         (Returned(p, "is_up") /\ result[p].name \in live)
            => /\ result[p].status = "ok"
               /\ result[p].up = result[p].ping

CreatedStaysRunningWitness ==
    \E p \in Procs :
        /\ Returned(p, "is_up")
        /\ call[p].op = "retrieve"
        /\ result[p].name \in live
        /\ result[p].up

\* C4: when delete returns successfully the name has no catalog row, no
\* database and no group role, and until the name is created again a retrieve
\* that reaches the catalog fails with InstanceNotFound.
DeleteRemovesAll ==
    /\ \A p \in Procs :
         (Returned(p, "delete") /\ result[p].status = "ok")
            => /\ ~HasRow(catalog, result[p].name)
               /\ result[p].name \notin DbNames(dbs)
               /\ generate_group(result[p].name) \notin roles
    /\ \A p \in Procs :
         (Returned(p, "retrieve") /\ result[p].name \in deleted
            /\ result[p].where # "catalog")
            => result[p].status = "InstanceNotFound"

DeleteRemovesAllWitness ==
    \E p \in Procs :
        /\ Returned(p, "retrieve")
        /\ result[p].name \in deleted
        /\ result[p].status = "InstanceNotFound"

\* C5: retrieve and delete of a name that has no catalog row fail with
\* InstanceNotFound (unless the catalog query itself fails); the delete sends
\* nothing to the cluster and leaves catalog and cluster as they were.
MissingIsNotFound ==
    \A p \in Procs :
        /\ (Returned(p, "retrieve") /\ ~HasRow(before[p].catalog, result[p].name)
              /\ result[p].where # "catalog")
             => result[p].status = "InstanceNotFound"
        /\ (Returned(p, "delete") /\ ~HasRow(before[p].catalog, result[p].name))
             => /\ result[p].where # "catalog"
                     => result[p].status = "InstanceNotFound"
                /\ issued[p] = <<>>
                /\ Snapshot = before[p]

MissingIsNotFoundWitness ==
    \E p \in Procs :
        /\ Returned(p, "delete")
        /\ ~HasRow(before[p].catalog, result[p].name)
        /\ result[p].status = "InstanceNotFound"
        /\ before[p].dbs # {}

\* C6: when create_database fails during a create, at whichever of its three
\* statements, no row is inserted or left uncommitted and the catalog is what
\* it was before the call.
FailedCreationNotPersisted ==
    \A p \in Procs :
        (Returned(p, "create") /\ result[p].where = "create_database")
            => /\ catalog = before[p].catalog
               /\ tx[p] = <<>>
               /\ ~HasRow(catalog, result[p].name)

FailedCreationNotPersistedWitness ==
    \E p \in Procs :
        /\ Returned(p, "create")
        /\ result[p].where = "create_database"
        /\ Len(issued[p]) = 3
        /\ result[p].name \in DbNames(dbs)

\* C7: when a statement of create_database is refused because the object
\* already exists, the create fails with InstanceAlreadyExists.
AlreadyExistsReclassified ==
    \A p \in Procs :
        (Returned(p, "create") /\ result[p].where = "create_database"
            /\ SaysAlreadyExists(result[p].cause.msg))
            => result[p].status = "InstanceAlreadyExists"

AlreadyExistsReclassifiedWitness ==
    \E p \in Procs :
        /\ Returned(p, "create")
        /\ result[p].where = "create_database"
        /\ SaysAlreadyExists(result[p].cause.msg)
        /\ result[p].status = "InstanceAlreadyExists"
        /\ ~HasRow(catalog, result[p].name)

\* C8: every failure of create_database during a create that is not an
\* "already exists" refusal reaches the caller as DatabaseCreationError.
OtherFailuresAreDatabaseCreationError ==
    \A p \in Procs :
        (Returned(p, "create") /\ result[p].where = "create_database"
            /\ ~SaysAlreadyExists(result[p].cause.msg))
            => result[p].status = "DatabaseCreationError"

CanonicalizeIdempotent ==
    /\ \A i \in 3..Len(hist) : hist[i] = hist[2]
    /\ (Len(hist) >= 2 /\ ~HasNonWord(hist[1])) => hist[2] = hist[1]

CanonicalizeIdempotentWitness ==
    /\ Len(hist) >= 3
    /\ HasNonWord(hist[1])
    /\ hist[2] # hist[1]
    /\ hist[3] = hist[2]


\* C11 as claimed: a name with characters outside [A-Za-z0-9_] becomes the
\* name with every maximal run of such characters replaced by one underscore,
\* followed by the first 10 hex characters of the hash of the name as given.
CanonicalizeCollapsesRuns ==
    (Len(hist) >= 2 /\ HasNonWord(hist[1]))
        => hist[2] = CollapseRuns(hist[1], FALSE)
                         \o SubSeq(Sha1Hex(hist[1]), 1, 10)

\* C11: a name with characters outside [A-Za-z0-9_] becomes the name with
\* each such character replaced by an underscore of its own, followed by the
\* first 10 hex characters of the hash of the name as given.
CanonicalizeReplacesEachCharacter ==
    (Len(hist) >= 2 /\ HasNonWord(hist[1]))
        => /\ Len(hist[2]) = Len(hist[1]) + 10
           /\ \A i \in 1..Len(hist[1]) :
                hist[2][i] = IF hist[1][i] \in WordChars THEN hist[1][i]
                             ELSE "_"
           /\ SubSeq(hist[2], Len(hist[1]) + 1, Len(hist[1]) + 10)
                = SubSeq(Sha1Hex(hist[1]), 1, 10)

CanonicalizeReplacesEachCharacterWitness ==
    /\ Len(hist) >= 2
    /\ \E i \in 1..(Len(hist[1]) - 1) :
         /\ hist[1][i] \notin WordChars
         /\ hist[1][i + 1] \notin WordChars
         /\ hist[2][i] = "_"
         /\ hist[2][i + 1] = "_"


\* C19: drop_user for the host create_user was called with drops the role
\* create_user created and nothing else, so the roles of the cluster are what
\* they were before create_user; drop_user for another host leaves that role
\* in place.
DropUserUndoesCreateUser ==
    /\ (out.drop # "none" /\ out.dropHost = host /\ out.dropFault = NoError)
          => /\ out.drop = "ok"
             /\ out.username \notin roles
             /\ roles = out.rolesBefore
    /\ (out.drop # "none" /\ out.dropHost # host)
          => /\ out.username \in roles
             /\ roles = out.rolesBefore \cup {out.username}

DropUserUndoesCreateUserWitness ==
    /\ out.drop = "ok"
    /\ out.dropHost = host
    /\ Len(val) > 10
    /\ roles = out.rolesBefore
    /\ out.rolesBefore # {}


\* C13: every row of the catalog, committed or about to be, has state
\* running and shared true, and every instance retrieve returns is in state
\* running.
OnlyRunningRows ==
    /\ \A i \in 1..Len(catalog) :
         catalog[i].state = "running" /\ catalog[i].shared
    /\ \A p \in Procs : \A i \in 1..Len(tx[p]) :
         tx[p][i].kind = "INSERT"
            => tx[p][i].row.state = "running" /\ tx[p][i].row.shared
    /\ \A p \in Procs :
         (Returned(p, "retrieve") /\ result[p].status = "ok")
            => /\ result[p].inst.state = "running"
               /\ result[p].inst.shared

OnlyRunningRowsWitness ==
    \E p \in Procs :
        /\ Returned(p, "retrieve")
        /\ result[p].status = "ok"
        /\ result[p].inst.state = "running"
        /\ Len(catalog) >= 2

CreateDatabaseStatements(n) ==
    << <<"CREATE ROLE", generate_group(n)>>, <<"CREATE DATABASE", n>>,
       <<"ALTER DATABASE", n>> >>

\* C14: a create sends CREATE ROLE, CREATE DATABASE and ALTER DATABASE in that
\* order and stops at the first that fails; what the earlier ones did stays:
\* the role when CREATE DATABASE fails, the role and the database (still owned
\* by the administrator) when ALTER DATABASE fails.
CreateDatabaseInOrder ==
    \A p \in Procs :
        call[p].op = "create" =>
            LET n == inst[p].name
                g == generate_group(n)
                k == Len(issued[p])
                failed == pc[p] = "done" /\ result[p].where = "create_database"
            IN  /\ k <= 3
                /\ issued[p] = SubSeq(CreateDatabaseStatements(n), 1, k)
                /\ (failed /\ k = 1)
                     => roles = before[p].roles /\ dbs = before[p].dbs
                /\ (failed /\ k = 2)
                     => /\ g \notin before[p].roles
                        /\ roles = before[p].roles \cup {g}
                        /\ dbs = before[p].dbs
                /\ (failed /\ k = 3)
                     => /\ roles = before[p].roles \cup {g}
                        /\ dbs = before[p].dbs
                                   \cup {[name |-> n, owner |-> AdminRole]}

CreateDatabaseInOrderWitness ==
    \E p \in Procs :
        /\ Returned(p, "create")
        /\ result[p].where = "create_database"
        /\ Len(issued[p]) = 2
        /\ generate_group(inst[p].name) \in roles
        /\ generate_group(inst[p].name) \notin before[p].roles
        /\ inst[p].name \notin DbNames(dbs)

\* C15: the DELETE of a delete is executed only after DROP DATABASE and then
\* DROP ROLE have both succeeded; when either fails the catalog keeps the row
\* and the caller gets the error of the statement.
DeleteRowLast ==
    \A p \in Procs :
        LET n == inst[p].name
            drops == << <<"DROP DATABASE", n>>,
                        <<"DROP ROLE", generate_group(n)>> >>
        IN  /\ (call[p].op = "delete" /\ tx[p] # <<>>) => issued[p] = drops
            /\ (Returned(p, "delete") /\ result[p].status = "ok")
                 => issued[p] = drops
            /\ (Returned(p, "delete") /\ result[p].where = "drop_database")
                 => /\ issued[p] = SubSeq(drops, 1, Len(issued[p]))
                    /\ tx[p] = <<>>
                    /\ catalog = before[p].catalog
                    /\ HasRow(catalog, n)
                    /\ result[p].status = result[p].cause.type
                    /\ result[p].status # "ok"

DeleteRowLastWitness ==
    \E p \in Procs :
        /\ Returned(p, "delete")
        /\ result[p].where = "drop_database"
        /\ Len(issued[p]) = 2
        /\ HasRow(catalog, inst[p].name)
        /\ inst[p].name \notin DbNames(dbs)

\* C17: a create fails with InstanceAlreadyExists only when the catalog row
\* or the database of that canonical name existed when the call began.
AlreadyExistsOnlyForExisting ==
    \A p \in Procs :
        (Returned(p, "create") /\ result[p].status = "InstanceAlreadyExists")
            => \/ HasRow(before[p].catalog, result[p].name)
               \/ result[p].name \in DbNames(before[p].dbs)

\* C18: distinct canonical names have distinct group roles, so a create is
\* never refused on account of the role of an instance of another name.
GroupRolesIndependent ==
    \A p \in Procs :
        (Returned(p, "create") /\ result[p].where = "create_database"
            /\ SaysAlreadyExists(result[p].cause.msg))
            => ~ \E a \in CanonNames :
                    /\ a # result[p].name
                    /\ HasRow(before[p].catalog, a)
                    /\ generate_group(a) = generate_group(result[p].name)


ManagerMethods == {"create_user", "drop_user", "public_host", "port"}

\* C12: on an instance whose shared flag is false, delete, create_user,
\* drop_user, public_host and port fail with NotImplementedError, send nothing
\* to the cluster, return no value of a manager, and leave catalog (with the
\* row of the instance) and cluster as they were.
NonSharedUnsupported ==
    \A p \in Procs :
        /\ (Returned(p, "delete") /\ ~inst[p].shared)
             => /\ result[p].status = "NotImplementedError"
                /\ issued[p] = <<>>
                /\ Snapshot = before[p]
                /\ HasRow(catalog, result[p].name)
        /\ (pc[p] = "done" /\ result[p].op \in ManagerMethods
              /\ ~result[p].inst.shared)
             => /\ result[p].status = "NotImplementedError"
                /\ result[p].value = <<>>
                /\ issued[p] = <<>>
                /\ Snapshot = before[p]
                /\ HasRow(catalog, result[p].name)

NonSharedUnsupportedWitness ==
    \E p \in Procs :
        /\ Returned(p, "delete")
        /\ ~inst[p].shared
        /\ result[p].status = "NotImplementedError"
        /\ HasRow(catalog, result[p].name)
        /\ result[p].name \in DbNames(dbs)

\* C20: is_up returns true exactly when the state of the instance is running
\* and the cluster's check of its database returns true; when the state is
\* not running it returns false and the cluster is not asked.
IsUpExact ==
    \A p \in Procs :
        Returned(p, "is_up") =>
            /\ result[p].status = "ok"
                 => result[p].up
                      = (result[p].inst.state = "running" /\ result[p].ping)
            /\ result[p].inst.state # "running"
                 => /\ result[p].status = "ok"
                    /\ ~result[p].up
                    /\ ~result[p].asked
            /\ result[p].asked => result[p].inst.state = "running"

IsUpExactWitness ==
    \E p \in Procs :
        /\ Returned(p, "is_up")
        /\ result[p].inst.state # "running"
        /\ result[p].ping
        /\ ~result[p].up


\* C16: of two creates of one canonical name that overlap, at most one
\* returns successfully, and the one that is refused a role or database the
\* other has created fails with InstanceAlreadyExists.
OverlappingCreatesOneWinner ==
    \A p \in Procs : \A q \in Procs \ {p} :
        /\ (Returned(p, "create") /\ Returned(q, "create")
              /\ call[p].overlap /\ call[q].overlap
              /\ result[p].name = result[q].name)
             => ~(result[p].status = "ok" /\ result[q].status = "ok")
        /\ (Returned(p, "create") /\ call[p].overlap
              /\ result[p].where = "create_database"
              /\ SaysAlreadyExists(result[p].cause.msg)
              /\ call[q].op = "create" /\ inst[q].name = result[p].name
              /\ issued[q] # <<>>)
             => result[p].status = "InstanceAlreadyExists"

OverlappingCreatesOneWinnerWitness ==
    \E p \in Procs : \E q \in Procs \ {p} :
        /\ Returned(p, "create") /\ Returned(q, "create")
        /\ call[p].overlap /\ call[q].overlap
        /\ result[p].name = result[q].name
        /\ before[p].catalog = before[q].catalog
        /\ result[q].status = "ok"
        /\ result[p].where = "create_database"
        /\ result[p].status = "InstanceAlreadyExists"

====
